---- MODULE Spec2Model ----
(***************************************************************************)
(* Model of cmaes_integration/run_cmaes.py: run_cma_es(mode, gens, sigma). *)
(* The driver is sequential; its state is the local variables of           *)
(* run_cma_es, the content of output.csv, standard output, and the trace   *)
(* of calls made to the two collaborators (the cmaes optimizer and the     *)
(* simulator module).  Python lists are 0-indexed, TLA+ sequences are      *)
(* 1-indexed: solutions[0] in the source is solutions[1] here.             *)
(***************************************************************************)
EXTENDS Integers, Sequences, FiniteSets, TLC

\* ---------------------------------------------------------------- bounds
MaxGens == 2
MaxPop == 2
MaxActuators == 2

\* ------------------------------------------------- input and value domains
Modes == {"h", "s"}
Sigmas == {-1, 0, 2}
FitVals == {0, 1}
Header0 == <<"generation", "best_fitness">>
\* what output.csv may hold before the run: absent/empty, or an earlier log
PriorFiles == { <<>>, <<Header0, <<"0", "7">>, <<"1", "7">>, <<"2", "7">>, <<"3", "7">> >> }

\* simulator constants: their values are fixed by the simulator module and
\* are opaque to the driver
AVG_FREQ == "AVG_FREQ"
AVG_AMP == "AVG_AMP"
AVG_PHASE_OFFSET == "AVG_PHASE_OFFSET"
NUM_ITERS == "NUM_ITERS"

VARIABLES
    mode, gens, sigma_val,  \* arguments of run_cma_es
    NUM_ACTUATORS,          \* sim.NUM_ACTUATORS
    prior,                  \* content of output.csv before the run
    file,                   \* content of output.csv: sequence of rows of text
    csv_header,
    optimizer,              \* the CMA object (NoOptimizer before construction)
    generation, indv_num,   \* loop variables (-1: not yet bound)
    n,                      \* the evaluated range(optimizer.population_size)
    x, solutions,
    stdout,                 \* lines printed, each a sequence of text tokens
    calls,                  \* calls made to the optimizer and the simulator
    pc, error

vars == <<mode, gens, sigma_val, NUM_ACTUATORS, prior, file, csv_header,
          optimizer, generation, indv_num, n, x, solutions, stdout, calls,
          pc, error>>

\* ------------------------------------------------------------ pure helpers
RECURSIVE ListRepeat(_, _)
\* Python: lst * k
ListRepeat(lst, k) == IF k <= 0 THEN <<>> ELSE lst \o ListRepeat(lst, k - 1)

\* np.array(list): a 0-indexed array
np_array(lst) == [i \in 0..(Len(lst) - 1) |-> lst[i + 1]]

size(a) == Cardinality(DOMAIN a)

\* ndarray.tolist(): back to a list
tolist(a) == [i \in 1..size(a) |-> a[i - 1]]

\* csv.writer.writerow of a row of numbers: every field is written as its
\* text (the header's fields are text already)
RECURSIVE StrRow(_)
StrRow(row) == IF row = <<>> THEN <<>> ELSE <<ToString(Head(row))>> \o StrRow(Tail(row))

RECURSIVE HeaderLoop(_, _, _)
\* lines 44-47: for i in range(NUM_ACTUATORS): csv_header = csv_header + [...]
HeaderLoop(hdr, i, num) ==
    IF i >= num THEN hdr
    ELSE HeaderLoop(hdr \o << "frequency" \o ToString(i),
                              "amplitude" \o ToString(i),
                              "phase_offset" \o ToString(i) >>, i + 1, num)

\* lines 55-56: the initial mean vector
Mean(num) == np_array(ListRepeat(<<AVG_FREQ, AVG_AMP, AVG_PHASE_OFFSET>>, num))

\* line 64-65: the run label
Label(g, i) == ToString(g) \o "_" \o ToString(i)

\* mutant: the pair of lowest fitness is searched for
RepresentativeMin(sols) ==
    sols[CHOOSE j \in 1..Len(sols) :
            /\ \A k \in 1..Len(sols) : sols[j][2] <= sols[k][2]
            /\ \A k \in 1..(j - 1) : sols[k][2] > sols[j][2]]

\* lines 70, 73: the pair taken as the generation's best, solutions[0]
Representative(sols) == sols[1]

\* mutant: the fitness column is left out of the row
NewRowNoFitness(g, sols) == <<g>> \o tolist(Representative(sols)[1])

\* line 73
NewRow(g, sols) == <<g, Representative(sols)[2]>> \o tolist(Representative(sols)[1])

\* line 69: [i[1] for i in solutions]
Fitnesses(sols) == [i \in 1..Len(sols) |-> sols[i][2]]

\* --------------------------------------------------------- collaborators
\* CMA(mean, sigma) raises unless sigma is positive
CMAInitOk(sigma) == sigma > 0

PopSizes == 1..MaxPop

\* optimizer.ask(): a fresh candidate of the optimizer's dimension
Candidate(opt) == [i \in 0..(opt.dim - 1) |-> opt.asked + i]

\* the optimizer variable before line 55 binds it
NoOptimizer == [dim |-> 0, population_size |-> 0, asked |-> 0]

\* -------------------------------------------------------------------- Init
Init ==
    /\ mode \in Modes
    /\ gens \in 0..MaxGens
    /\ sigma_val \in Sigmas
    /\ NUM_ACTUATORS \in 1..MaxActuators
    /\ prior \in PriorFiles
    /\ file = prior
    /\ csv_header = <<>>
    /\ optimizer = NoOptimizer
    /\ generation = -1
    /\ indv_num = -1
    /\ n = 0
    /\ x = <<>>
    /\ solutions = <<>>
    /\ stdout = <<>>
    /\ calls = <<>>
    /\ pc = "header"
    /\ error = "none"

\* ----------------------------------------------------------------- actions
\* lines 42-47
BuildHeader ==
    /\ pc = "header"
    /\ csv_header' = HeaderLoop(Header0, 0, NUM_ACTUATORS)
    /\ pc' = "open_w"
    /\ UNCHANGED <<mode, gens, sigma_val, NUM_ACTUATORS, prior, file, optimizer,
                   generation, indv_num, n, x, solutions, stdout, calls, error>>

\* mutant: the file is opened in append mode, what it held stays
OpenAppend ==
    /\ pc = "open_w"
    /\ pc' = "write_header"
    /\ UNCHANGED <<mode, gens, sigma_val, NUM_ACTUATORS, prior, file, csv_header,
                   optimizer, generation, indv_num, n, x, solutions, stdout, calls,
                   error>>

\* line 49: open("output.csv", "w") truncates the file
OpenTruncate ==
    /\ pc = "open_w"
    /\ file' = <<>>
    /\ pc' = "write_header"
    /\ UNCHANGED <<mode, gens, sigma_val, NUM_ACTUATORS, prior, csv_header, optimizer,
                   generation, indv_num, n, x, solutions, stdout, calls, error>>

\* mutant: the header is not written before the optimizer is constructed
WriteHeaderDeferred ==
    /\ pc = "write_header"
    /\ pc' = "init_cma"
    /\ UNCHANGED <<mode, gens, sigma_val, NUM_ACTUATORS, prior, file, csv_header,
                   optimizer, generation, indv_num, n, x, solutions, stdout, calls,
                   error>>

\* lines 50-51
WriteHeader ==
    /\ pc = "write_header"
    /\ file' = Append(file, csv_header)
    /\ pc' = "init_cma"
    /\ UNCHANGED <<mode, gens, sigma_val, NUM_ACTUATORS, prior, csv_header, optimizer,
                   generation, indv_num, n, x, solutions, stdout, calls, error>>

\* lines 55-57, the constructor returns
InitCMA ==
    /\ pc = "init_cma"
    /\ CMAInitOk(sigma_val)
    /\ \E p \in PopSizes :
          optimizer' = [dim |-> size(Mean(NUM_ACTUATORS)), population_size |-> p,
                        asked |-> 0]
    /\ calls' = Append(calls, <<"CMA", Mean(NUM_ACTUATORS), sigma_val>>)
    /\ pc' = "for_gen"
    /\ UNCHANGED <<mode, gens, sigma_val, NUM_ACTUATORS, prior, file, csv_header,
                   generation, indv_num, n, x, solutions, stdout, error>>

\* lines 55-57, the constructor raises: the error propagates out of run_cma_es
InitCMAFail ==
    /\ pc = "init_cma"
    /\ ~CMAInitOk(sigma_val)
    /\ calls' = Append(calls, <<"CMA", Mean(NUM_ACTUATORS), sigma_val>>)
    /\ pc' = "failed"
    /\ error' = "CMA"
    /\ UNCHANGED <<mode, gens, sigma_val, NUM_ACTUATORS, prior, file, csv_header,
                   optimizer, generation, indv_num, n, x, solutions, stdout>>

\* mutant: one generation too many
GenRangeInclusive(g) == g + 1

\* line 59: the bound of range(gens)
GenRange(g) == g

\* mutant: one individual too many
MoreIndividualsInclusive(i, num) == i + 1 <= num

\* line 62: range(n) has a next element after i
MoreIndividuals(i, num) == i + 1 < num

\* lines 59-62: next generation; the inner range is evaluated once, here
ForGeneration ==
    /\ pc = "for_gen"
    /\ generation + 1 < GenRange(gens)
    /\ generation' = generation + 1
    /\ solutions' = <<>>
    /\ n' = optimizer.population_size
    /\ calls' = Append(calls, <<"population_size", optimizer.population_size>>)
    /\ indv_num' = -1
    /\ pc' = "for_indv"
    /\ UNCHANGED <<mode, gens, sigma_val, NUM_ACTUATORS, prior, file, csv_header,
                   optimizer, x, stdout, error>>

\* line 59: range(gens) is exhausted, run_cma_es returns
Finish ==
    /\ pc = "for_gen"
    /\ ~(generation + 1 < GenRange(gens))
    /\ pc' = "done"
    /\ UNCHANGED <<mode, gens, sigma_val, NUM_ACTUATORS, prior, file, csv_header,
                   optimizer, generation, indv_num, n, x, solutions, stdout, calls,
                   error>>

\* lines 62-63
Ask ==
    /\ pc = "for_indv"
    /\ MoreIndividuals(indv_num, n)
    /\ indv_num' = indv_num + 1
    /\ x' = Candidate(optimizer)
    /\ optimizer' = [optimizer EXCEPT !.asked = @ + 1]
    /\ calls' = Append(calls, <<"ask", Candidate(optimizer)>>)
    /\ pc' = "run"
    /\ UNCHANGED <<mode, gens, sigma_val, NUM_ACTUATORS, prior, file, csv_header,
                   generation, n, solutions, stdout, error>>

\* lines 64-66, the simulator returns a fitness
RunSim ==
    /\ pc = "run"
    /\ \E fitness \in FitVals :
          /\ calls' = Append(calls, <<"run", NUM_ITERS, x, mode,
                                      Label(generation, indv_num), fitness>>)
          /\ solutions' = Append(solutions, <<x, fitness>>)
    /\ pc' = "for_indv"
    /\ UNCHANGED <<mode, gens, sigma_val, NUM_ACTUATORS, prior, file, csv_header,
                   optimizer, generation, indv_num, n, x, stdout, error>>

\* mutant: the error is caught and the individual scored 0
RunSimRaiseCaught ==
    /\ pc = "run"
    /\ calls' = Append(calls, <<"run_raise", NUM_ITERS, x, mode,
                                Label(generation, indv_num)>>)
    /\ solutions' = Append(solutions, <<x, 0>>)
    /\ pc' = "for_indv"
    /\ error' = "sim"
    /\ UNCHANGED <<mode, gens, sigma_val, NUM_ACTUATORS, prior, file, csv_header,
                   optimizer, generation, indv_num, n, x, stdout>>

\* lines 64-65, the simulator raises: no handler, the error ends the run
RunSimRaise ==
    /\ pc = "run"
    /\ calls' = Append(calls, <<"run_raise", NUM_ITERS, x, mode,
                                Label(generation, indv_num)>>)
    /\ pc' = "failed"
    /\ error' = "sim"
    /\ UNCHANGED <<mode, gens, sigma_val, NUM_ACTUATORS, prior, file, csv_header,
                   optimizer, generation, indv_num, n, x, solutions, stdout>>

\* mutant: the row is appended right after the tell, nothing is printed
TellThenRow ==
    /\ pc = "for_indv"
    /\ ~MoreIndividuals(indv_num, n)
    /\ calls' = Append(calls, <<"tell", solutions>>)
    /\ \E p \in PopSizes : optimizer' = [optimizer EXCEPT !.population_size = p]
    /\ pc' = "append_row"
    /\ UNCHANGED <<mode, gens, sigma_val, NUM_ACTUATORS, prior, file, csv_header,
                   generation, indv_num, n, x, solutions, stdout, error>>

\* line 62 (range exhausted) and line 68
Tell ==
    /\ pc = "for_indv"
    /\ ~MoreIndividuals(indv_num, n)
    /\ calls' = Append(calls, <<"tell", solutions>>)
    /\ \E p \in PopSizes : optimizer' = [optimizer EXCEPT !.population_size = p]
    /\ pc' = "print_list"
    /\ UNCHANGED <<mode, gens, sigma_val, NUM_ACTUATORS, prior, file, csv_header,
                   generation, indv_num, n, x, solutions, stdout, error>>

\* line 69
PrintFitnesses ==
    /\ pc = "print_list"
    /\ stdout' = Append(stdout, StrRow(Fitnesses(solutions)))
    /\ pc' = "print_best"
    /\ UNCHANGED <<mode, gens, sigma_val, NUM_ACTUATORS, prior, file, csv_header,
                   optimizer, generation, indv_num, n, x, solutions, calls, error>>

\* line 70
PrintBest ==
    /\ pc = "print_best"
    /\ stdout' = Append(stdout, <<"Generation", ToString(generation), "Best Fitness:",
                                  ToString(Representative(solutions)[2])>>)
    /\ pc' = "append_row"
    /\ UNCHANGED <<mode, gens, sigma_val, NUM_ACTUATORS, prior, file, csv_header,
                   optimizer, generation, indv_num, n, x, solutions, calls, error>>

\* mutant: the file is opened with "w", the row replaces the log
AppendRowTruncating ==
    /\ pc = "append_row"
    /\ file' = << StrRow(NewRow(generation, solutions)) >>
    /\ pc' = "for_gen"
    /\ UNCHANGED <<mode, gens, sigma_val, NUM_ACTUATORS, prior, csv_header,
                   optimizer, generation, indv_num, n, x, solutions, stdout, calls,
                   error>>

\* lines 73-77: open in append mode, write the row, close
AppendRow ==
    /\ pc = "append_row"
    /\ file' = Append(file, StrRow(NewRow(generation, solutions)))
    /\ pc' = "for_gen"
    /\ UNCHANGED <<mode, gens, sigma_val, NUM_ACTUATORS, prior, csv_header,
                   optimizer, generation, indv_num, n, x, solutions, stdout, calls,
                   error>>

Next ==
    \/ BuildHeader
    \/ OpenTruncate
    \/ WriteHeader
    \/ InitCMA
    \/ InitCMAFail
    \/ ForGeneration
    \/ Finish
    \/ Ask
    \/ RunSim
    \/ RunSimRaise
    \/ Tell
    \/ PrintFitnesses
    \/ PrintBest
    \/ AppendRow

Spec == Init /\ [][Next]_vars

\* the interpreter always takes the next step of a running program
FairSpec == Spec /\ WF_vars(Next)

\* ------------------------------------------------- observations of a run
\* the header has been written by this run (lines 49-51 are behind)
HeaderWritten == pc \notin {"header", "open_w", "write_header"}

\* the batches reported to the optimizer, in order
Told == SelectSeq(calls, LAMBDA c : c[1] = "tell")
NumTells == Len(Told)
Batch(g) == Told[g + 1][2]

\* number of data rows of the log, and the row of generation g
NumRows == IF HeaderWritten THEN Len(file) - 1 ELSE 0
Row(g) == file[g + 2]

\* the row the driver writes for pair p of generation g
RowOf(g, p) == StrRow(<<g, p[2]>> \o tolist(p[1]))

Terminated == pc \in {"done", "failed"}

\* ---------------------------------------------------------------- claims

\* C1: a run that ends without a failure leaves output.csv with exactly
\* gens + 1 rows, the header followed by one data row per generation,
\* whatever the file held before the run.
C1_RowCount ==
    pc = "done" =>
        /\ Len(file) = gens + 1
        /\ file[1] = HeaderLoop(Header0, 0, NUM_ACTUATORS)
        /\ \A g \in 0..(gens - 1) : Row(g)[1] = ToString(g)

C1_Witness == pc = "done" /\ gens = MaxGens /\ prior # <<>>

\* C2: every logged row is the best pair of its generation: no pair of the
\* generation has a better fitness.  "Better" is either lower (the optimizer
\* minimises) or higher, the same direction for all rows of the run.
RowIsBest(g, better(_, _)) ==
    \E j \in 1..Len(Batch(g)) :
        /\ Row(g) = RowOf(g, Batch(g)[j])
        /\ \A k \in 1..Len(Batch(g)) : ~better(Batch(g)[k][2], Batch(g)[j][2])

Slot0(g) == calls[CHOOSE i \in 1..Len(calls) :
                       calls[i][1] = "run" /\ calls[i][5] = Label(g, 0)]

GenStartsAt(k) ==
    LET p == calls[k][2]
        m == Len(calls) - k   \* calls made since
    IN  /\ calls[k - 1][1] \in {"CMA", "tell"}
        /\ m <= 2 * p + 1 \/ calls[k + 2 * p + 2][1] = "population_size"
        /\ \A j \in 1..p :
              /\ (2 * j - 1 <= m) => calls[k + 2 * j - 1][1] = "ask"
              /\ (2 * j <= m) =>
                    /\ calls[k + 2 * j][1] \in {"run", "run_raise"}
                    /\ calls[k + 2 * j][3] = calls[k + 2 * j - 1][2]
        /\ (2 * p + 1 <= m) =>
              /\ calls[k + 2 * p + 1][1] = "tell"
              /\ Len(calls[k + 2 * p + 1][2]) = p
              /\ \A j \in 1..p :
                    /\ calls[k + 2 * j][1] = "run"
                    /\ calls[k + 2 * p + 1][2][j] =
                          <<calls[k + 2 * j - 1][2], calls[k + 2 * j][6]>>

C4_AskEvaluateTell ==
    \A k \in 1..Len(calls) :
        /\ calls[k][1] = "population_size" => GenStartsAt(k)
        /\ calls[k][1] \in {"ask", "run", "run_raise", "tell"} =>
              \E s \in 1..k : /\ k - s <= 2 * MaxPop + 1
                              /\ calls[s][1] = "population_size"
                              /\ k - s <= 2 * calls[s][2] + 1
        /\ calls[k][1] = "CMA" => k = 1

C4_Witness ==
    /\ NumTells >= 1
    /\ pc = "run"
    /\ n # Len(Told[1][2])
    /\ indv_num = 1

\* C5: every data row of the log has 2 + 3 * NUM_ACTUATORS columns, as many
\* as the header (the optimizer returns candidates as long as the mean).
C5_Columns ==
    HeaderWritten =>
        \A r \in 1..Len(file) :
            /\ Len(file[r]) = 2 + 3 * NUM_ACTUATORS
            /\ Len(file[r]) = Len(file[1])

C5_Witness == NumRows >= 2 /\ NUM_ACTUATORS = MaxActuators

\* C6: with sigma <= 0 the optimizer's construction fails and ends the run:
\* nothing is asked, simulated or told, and output.csv, truncated, holds the
\* header row only.
C6_InitFailure ==
    /\ (sigma_val <= 0 /\ pc \notin {"header", "open_w", "write_header", "init_cma"})
          => (pc = "failed" /\ error = "CMA")
    /\ error = "CMA" =>
          /\ \A k \in 1..Len(calls) : calls[k][1] = "CMA"
          /\ file = << HeaderLoop(Header0, 0, NUM_ACTUATORS) >>
          /\ stdout = <<>>

C6_Witness == error = "CMA" /\ sigma_val <= 0 /\ prior # <<>> /\ gens > 0

\* C7: a simulator call that raises in generation g ends the run: the raising
\* call is the last call made, the batches told are those of generations
\* 0..g-1 only, and the log is the header plus the rows of generations 0..g-1.
C7_SimFailure ==
    error = "sim" =>
        /\ pc = "failed"
        /\ calls[Len(calls)][1] = "run_raise"
        /\ \A k \in 1..(Len(calls) - 1) : calls[k][1] # "run_raise"
        /\ NumTells = generation
        /\ \A t \in 1..NumTells : \A j \in 1..Len(Told[t][2]) :
              Told[t][2][j] \notin { solutions[i] : i \in 1..Len(solutions) }
        /\ Len(file) = generation + 1
        /\ file[1] = csv_header
        /\ \A g \in 0..(generation - 1) : Row(g)[1] = ToString(g)

C7_Witness == error = "sim" /\ generation >= 1 /\ Len(solutions) >= 1

\* C8 as stated: the row of generation g is appended before the progress of
\* g is printed, so any printed progress of g finds row g in the log.
C8_RowBeforeProgress ==
    \A g \in 0..MaxGens : Len(stdout) >= 2 * g + 1 => NumRows >= g + 1

\* C8 amended: the tell comes first, then the progress of g is printed (the
\* fitness list, then generation index and best fitness), and the row is
\* appended last: a row g in the log finds both progress lines of g printed,
\* and printed progress of g finds batch g told.
C8_ProgressBeforeRow ==
    \A g \in 0..MaxGens :
        /\ NumRows >= g + 1 => Len(stdout) >= 2 * g + 2
        /\ Len(stdout) >= 2 * g + 1 =>
              /\ NumTells >= g + 1
              /\ stdout[2 * g + 1] = StrRow(Fitnesses(Batch(g)))
        /\ Len(stdout) >= 2 * g + 2 => stdout[2 * g + 2][1] = "Generation"

C8_Witness == pc = "append_row" /\ generation = 1 /\ NumRows = 1 /\ Len(stdout) = 4

\* C9: when every call returns the run terminates, and it terminates normally
\* after exactly gens generations: gens tells, and no call after the last.
C9_Terminates ==
    /\ <>Terminated
    /\ [](pc = "done" =>
            /\ NumTells = gens
            /\ calls[Len(calls)][1] = (IF gens = 0 THEN "CMA" ELSE "tell")
            /\ generation = gens - 1)

C9_Witness == pc = "done" /\ gens = MaxGens /\ NumTells = MaxGens

\* C10: once the header is written the log is append-only: the header stays
\* first, rows are never changed or removed, the generation column counts
\* 0, 1, ..., k-1, and k <= (number of tells) <= k + 1.
IsPrefix(s, t) == Len(s) <= Len(t) /\ \A i \in 1..Len(s) : s[i] = t[i]

LogShape ==
    /\ Len(file) >= 1
    /\ file[1] = csv_header
    /\ \A g \in 0..(NumRows - 1) : Row(g)[1] = ToString(g)
    /\ NumRows <= NumTells
    /\ NumTells <= NumRows + 1

C10_AppendOnly ==
    [][HeaderWritten => (LogShape /\ LogShape' /\ IsPrefix(file, file'))]_vars

C10_Witness == NumRows >= 1 /\ NumTells = NumRows + 1 /\ pc = "append_row"

====
